---- MODULE Spec2Model ----
(***************************************************************************)
(* The Narrator: the client-side conversation state machine of the story   *)
(* chat (src/unnamed/part_000, the stateless-replay variant of            *)
(* src/index.tsx).  The state is the module-level variables of the script, *)
(* the browser's localStorage, the parts of the DOM that enable handlers   *)
(* (regenerate button, quick replies, the start button) and the backend    *)
(* calls that are awaited.  Every handler runs to its next await as one    *)
(* step (the event loop is single threaded).                               *)
(***************************************************************************)
EXTENDS Bags, FiniteSets, Integers, Sequences, TLC

VARIABLES
  currentHistory,            \* let currentHistory: Content[]
  currentChatTitle,          \* let currentChatTitle: string | null
  currentSystemInstruction,  \* let currentSystemInstruction: string
  saveTimeoutId,             \* TRUE iff the timeout of scheduleSave is pending
  localStorage,              \* key -> stored item
  chatContainer,             \* the messages shown, in order
  loadingCount,              \* the number of loading indicators created so far
  regenerateButton,          \* TRUE iff a .regenerate-button is in the chat container
  quickReplies,              \* the suggestions of the .quick-replies container, <<>> if none
  startWeavingDisabled,      \* startWeavingBtn.disabled
  inflight,                  \* bag of awaited backend calls
  microtasks,                \* the continuations that run before the next event, in order
  phase,                     \* "boot" before initializeApp, then "running" or "nokey"
  scheduled,                 \* history variable: the conversation at the last scheduleSave
  events,                    \* history variable: the number of user events so far
  failed,                    \* history variable: TRUE iff a backend call has failed
  last                       \* history variable: the handler that ran last, its inputs

vars == <<currentHistory, currentChatTitle, currentSystemInstruction, saveTimeoutId,
          localStorage, chatContainer, loadingCount, regenerateButton, quickReplies, startWeavingDisabled,
          inflight, microtasks, phase, scheduled, events, failed, last>>

----------------------------------------------------------------------------
(* Bounds of the model *)

\* the user clicks or submits at most MaxEvents times
MaxEvents == 3

----------------------------------------------------------------------------
(* Constants of the program *)

SAVED_CHATS_KEY == "gemini-story-saved-chats"
CURRENT_CHAT_KEY == "gemini-story-current-chat"
HISTORY_KEY_PREFIX == "gemini-story-history-"
DEFAULT_SYSTEM_INSTRUCTION ==
  "You are a master storyteller. Your goal is to weave imaginative and engaging tales for the user. When the user gives you a prompt, turn it into a captivating story."
WELCOME_MESSAGE ==
  "Greetings, traveler! What story shall we weave today? Give me a prompt, and a tale will unfold."

\* JavaScript's null
Null == "<null>"

\* !currentChatTitle
NoTitle(title) == title \in {Null, ""}

----------------------------------------------------------------------------
(* Strings.  A text typed by the user or returned by the backend is a      *)
(* sequence of segments, each a run of white space, a double quote or a    *)
(* run of other characters; Join gives the string.                         *)

WhiteSpace == {" ", "  "}

RECURSIVE Join(_)
Join(segs) == IF segs = <<>> THEN "" ELSE Head(segs) \o Join(Tail(segs))

RECURSIVE TrimStart(_)
TrimStart(segs) ==
  IF segs # <<>> /\ Head(segs) \in WhiteSpace THEN TrimStart(Tail(segs)) ELSE segs

RECURSIVE TrimEnd(_)
TrimEnd(segs) ==
  IF segs # <<>> /\ segs[Len(segs)] \in WhiteSpace
    THEN TrimEnd(SubSeq(segs, 1, Len(segs) - 1))
    ELSE segs

\* String.prototype.trim
Trim(segs) == TrimEnd(TrimStart(segs))

\* .replace(/"/g, '')
RemoveQuotes(segs) == SelectSeq(segs, LAMBDA c : c # "\"")

\* content.trim().length > 0 for a string of the model (none has white space
\* at its ends unless it is white space only)
NonBlank(str) == str # "" /\ str \notin WhiteSpace

\* Array.prototype.includes
Includes(seq, x) == \E i \in 1..Len(seq) : seq[i] = x

----------------------------------------------------------------------------
(* Content, JSON and localStorage *)

\* { role, parts: [{ text }] }: parts is the sequence of the texts
Turn(role, text) == [role |-> role, parts |-> <<text>>]

\* message.parts.map((part) => part.text).join('')
PartsText(turn) == Join(turn.parts)

\* A stored item is a string: either the text of a JSON value, kept as that
\* value, or a string that JSON.parse rejects.
JSONstringify(value) == [json |-> TRUE, v |-> value]
PlainString(str) == [json |-> FALSE, v |-> str]
NullItem == [json |-> FALSE, v |-> Null]

JArray(items) == [k |-> "array", items |-> items]
JObject(fields) == [k |-> "object", fields |-> fields]

getItem(ls, key) == IF key \in DOMAIN ls THEN ls[key] ELSE NullItem

setItem(ls, key, item) == [k \in DOMAIN ls \cup {key} |-> IF k = key THEN item ELSE ls[k]]

removeItem(ls, key) == [k \in DOMAIN ls \ {key} |-> ls[k]]

\* !rawData: null or the empty string
Falsy(item) == ~item.json /\ item.v \in {Null, ""}

ChatData(history, systemInstruction) ==
  [history |-> history, systemInstruction |-> systemInstruction]

EmptyChatData == ChatData(<<>>, DEFAULT_SYSTEM_INSTRUCTION)

\* a getChatData without the branch for the old format: parsedData.history
\* of an array is undefined
getChatData_NoLegacy(ls, title) ==
  LET rawData == getItem(ls, HISTORY_KEY_PREFIX \o title) IN
  IF Falsy(rawData) THEN EmptyChatData
  ELSE IF ~rawData.json THEN EmptyChatData
  ELSE LET parsedData == rawData.v IN
    IF parsedData.k = "array"
      THEN EmptyChatData
      ELSE ChatData(
        IF "history" \in DOMAIN parsedData.fields
          THEN parsedData.fields.history ELSE <<>>,
        IF "systemInstruction" \in DOMAIN parsedData.fields
           /\ parsedData.fields.systemInstruction # ""
          THEN parsedData.fields.systemInstruction ELSE DEFAULT_SYSTEM_INSTRUCTION)

\* a getChatData without try and catch: the SyntaxError of JSON.parse leaves it
getChatData_NoCatch(ls, title) ==
  LET rawData == getItem(ls, HISTORY_KEY_PREFIX \o title) IN
  IF Falsy(rawData) THEN EmptyChatData
  ELSE IF ~rawData.json THEN [thrown |-> "SyntaxError"]
  ELSE LET parsedData == rawData.v IN
    IF parsedData.k = "array"
      THEN ChatData(parsedData.items, DEFAULT_SYSTEM_INSTRUCTION)
      ELSE ChatData(
        IF "history" \in DOMAIN parsedData.fields
          THEN parsedData.fields.history ELSE <<>>,
        IF "systemInstruction" \in DOMAIN parsedData.fields
           /\ parsedData.fields.systemInstruction # ""
          THEN parsedData.fields.systemInstruction ELSE DEFAULT_SYSTEM_INSTRUCTION)

getChatData(ls, title) ==
  LET rawData == getItem(ls, HISTORY_KEY_PREFIX \o title) IN
  IF Falsy(rawData) THEN EmptyChatData
  ELSE IF ~rawData.json THEN EmptyChatData            \* JSON.parse throws: catch
  ELSE LET parsedData == rawData.v IN
    IF parsedData.k = "array"
      THEN ChatData(parsedData.items, DEFAULT_SYSTEM_INSTRUCTION)
      ELSE ChatData(
        IF "history" \in DOMAIN parsedData.fields
          THEN parsedData.fields.history ELSE <<>>,
        IF "systemInstruction" \in DOMAIN parsedData.fields
           /\ parsedData.fields.systemInstruction # ""
          THEN parsedData.fields.systemInstruction ELSE DEFAULT_SYSTEM_INSTRUCTION)

\* a saveChatData that still writes the old format, a bare array
saveChatData_BareArray(ls, title, history, systemInstruction) ==
  setItem(ls, HISTORY_KEY_PREFIX \o title, JSONstringify(JArray(history)))

saveChatData(ls, title, history, systemInstruction) ==
  setItem(ls, HISTORY_KEY_PREFIX \o title,
          JSONstringify(JObject(ChatData(history, systemInstruction))))

getSavedChats(ls) ==
  LET raw == getItem(ls, SAVED_CHATS_KEY) IN
  IF Falsy(raw) THEN <<>> ELSE raw.v.items

\* a saveNewChatTitle that pushes the title whether it is present or not
saveNewChatTitle_Always(ls, title) ==
  setItem(ls, SAVED_CHATS_KEY, JSONstringify(JArray(Append(getSavedChats(ls), title))))

saveNewChatTitle(ls, title) ==
  LET chats == getSavedChats(ls) IN
  IF ~Includes(chats, title)
    THEN setItem(ls, SAVED_CHATS_KEY, JSONstringify(JArray(Append(chats, title))))
    ELSE ls

----------------------------------------------------------------------------
(* The backend.  ai.models.generateContent resolves with a response whose  *)
(* text is one of the strings below, or rejects with an error.             *)

TextStory == "{\"story_part\":\"you fall\",\"suggestions\":[\"look\"]}"
TextNoStory == "{\"suggestions\":[\"look\"]}"
TextPlain == "Once upon a time..."
TextEmpty == ""
\* a response whose one suggestion is the empty string
TextBlankReply == "{\"story_part\":\"you fall\",\"suggestions\":[\"\"]}"

\* JSON.parse(response.text), on the response texts of the model
JSONparse(text) ==
  CASE text = TextStory ->
         [ok |-> TRUE, value |-> [story_part |-> "you fall", suggestions |-> <<"look">>]]
    [] text = TextNoStory ->
         [ok |-> TRUE, value |-> [suggestions |-> <<"look">>]]
    [] text = TextBlankReply ->
         [ok |-> TRUE, value |-> [story_part |-> "you fall", suggestions |-> <<"">>]]
    [] OTHER -> [ok |-> FALSE]                          \* SyntaxError

\* new Error(message): the message is a sequence of segments
Error(message) == [isError |-> TRUE, message |-> message]

\* String.prototype.toLowerCase, segment by segment; the segments without
\* an upper-case letter are their own lower case
ToLowerCase(seg) ==
  CASE seg = "API key not valid" -> "api key not valid"
    [] seg = "Quota" -> "quota"
    [] seg = "Failed to fetch" -> "failed to fetch"
    [] seg = "Network Error" -> "network error"
    [] seg = " Bad Gateway " -> " bad gateway "
    [] seg = " Service Unavailable" -> " service unavailable"
    [] seg = "API response is missing 'story_part'."
         -> "api response is missing 'story_part'."
    [] seg = "Generated title was empty." -> "generated title was empty."
    [] seg \in {"api key not valid", "quota", "failed to fetch", "network error",
                "400", "500", "503"} -> seg

LowerCase(segs) == [i \in 1..Len(segs) |-> ToLowerCase(segs[i])]

\* a classification that looks at the message as it is, upper case included
UserFriendlyMessage_CaseSensitive(error) ==
  IF ~error.isError
    THEN "An unexpected error occurred. Please try again later."
  ELSE LET message == error.message IN
    IF Includes(message, "api key not valid")
      THEN "Your API key is invalid. Please check your configuration."
    ELSE IF Includes(message, "quota")
      THEN "You have exceeded your API quota. Please check your usage and billing."
    ELSE IF Includes(message, "network error") \/ Includes(message, "failed to fetch")
      THEN "A network error occurred. Please check your internet connection and try again."
    ELSE IF Includes(message, "400")
      THEN "The request was malformed. This could be due to a safety policy violation. Please try rephrasing your prompt."
    ELSE IF Includes(message, "500") \/ Includes(message, "503")
      THEN "The service is temporarily unavailable. Please try again in a few moments."
    ELSE "Could not get a response. " \o Join(message)

\* the message handleApiError renders
UserFriendlyMessage(error) ==
  IF ~error.isError
    THEN "An unexpected error occurred. Please try again later."
  ELSE LET lowerCaseMessage == LowerCase(error.message) IN
    IF Includes(lowerCaseMessage, "api key not valid")
      THEN "Your API key is invalid. Please check your configuration."
    ELSE IF Includes(lowerCaseMessage, "quota")
      THEN "You have exceeded your API quota. Please check your usage and billing."
    ELSE IF Includes(lowerCaseMessage, "network error")
            \/ Includes(lowerCaseMessage, "failed to fetch")
      THEN "A network error occurred. Please check your internet connection and try again."
    ELSE IF Includes(lowerCaseMessage, "400")
      THEN "The request was malformed. This could be due to a safety policy violation. Please try rephrasing your prompt."
    ELSE IF Includes(lowerCaseMessage, "500") \/ Includes(lowerCaseMessage, "503")
      THEN "The service is temporarily unavailable. Please try again in a few moments."
    ELSE "Could not get a response. " \o Join(error.message)

----------------------------------------------------------------------------
(* The handlers, as functions of the state s of the script: a record of    *)
(* the variables a handler reads and writes.                               *)

State ==
  [currentHistory |-> currentHistory,
   currentChatTitle |-> currentChatTitle,
   currentSystemInstruction |-> currentSystemInstruction,
   saveTimeoutId |-> saveTimeoutId,
   localStorage |-> localStorage,
   chatContainer |-> chatContainer,
   loadingCount |-> loadingCount,
   regenerateButton |-> regenerateButton,
   quickReplies |-> quickReplies,
   startWeavingDisabled |-> startWeavingDisabled,
   inflight |-> inflight,
   microtasks |-> microtasks,
   scheduled |-> scheduled]

Becomes(s) ==
  /\ currentHistory' = s.currentHistory
  /\ currentChatTitle' = s.currentChatTitle
  /\ currentSystemInstruction' = s.currentSystemInstruction
  /\ saveTimeoutId' = s.saveTimeoutId
  /\ localStorage' = s.localStorage
  /\ chatContainer' = s.chatContainer
  /\ loadingCount' = s.loadingCount
  /\ regenerateButton' = s.regenerateButton
  /\ quickReplies' = s.quickReplies
  /\ startWeavingDisabled' = s.startWeavingDisabled
  /\ inflight' = s.inflight
  /\ microtasks' = s.microtasks
  /\ scheduled' = s.scheduled

NoSnapshot == [title |-> Null, history |-> <<>>, systemInstruction |-> ""]

\* clearTimeout(saveTimeoutId); saveTimeoutId = window.setTimeout(..., 1500)
\* (scheduled is a history variable: the conversation as it is at this call)
scheduleSave(s) ==
  [s EXCEPT !.saveTimeoutId = TRUE,
            !.scheduled = [title |-> s.currentChatTitle, history |-> s.currentHistory,
                           systemInstruction |-> s.currentSystemInstruction]]

\* a callback that writes without looking at currentChatTitle
saveTimeout_NoTitleCheck(s) ==
  [s EXCEPT !.saveTimeoutId = FALSE, !.scheduled = NoSnapshot,
            !.localStorage =
               saveChatData(s.localStorage, s.currentChatTitle, s.currentHistory,
                            s.currentSystemInstruction)]

\* the callback of the timeout of scheduleSave
saveTimeout(s) ==
  LET fired == [s EXCEPT !.saveTimeoutId = FALSE, !.scheduled = NoSnapshot] IN
  IF NoTitle(s.currentChatTitle) THEN fired
  ELSE [fired EXCEPT !.localStorage =
          saveChatData(s.localStorage, s.currentChatTitle, s.currentHistory,
                       s.currentSystemInstruction)]

\* a message of the chat container; a loading indicator is told from the
\* others by its number
Message(content, sender, indicator) ==
  [content |-> content, sender |-> sender, indicator |-> indicator]

\* appendMessage, and the regenerate button and the quick replies it leaves;
\* the loading indicator it returns is number s.loadingCount + 1
appendMessage(s, content, sender, suggestions) ==
  [s EXCEPT
    !.chatContainer =
       Append(s.chatContainer,
              Message(content, sender,
                      IF sender = "loading" THEN s.loadingCount + 1 ELSE 0)),
    !.loadingCount = IF sender = "loading" THEN s.loadingCount + 1 ELSE s.loadingCount,
    !.regenerateButton = (sender = "model" /\ NonBlank(content)),
    !.quickReplies = IF sender = "model" /\ suggestions # <<>> THEN suggestions ELSE <<>>]

\* loadingIndicator.remove()
RemoveIndicator(s, loadingIndicator) ==
  [s EXCEPT !.chatContainer =
     SelectSeq(s.chatContainer, LAMBDA m : m.indicator # loadingIndicator)]

\* a handleApiError that leaves the loading indicator in the chat container
handleApiError_KeepsIndicator(s, error, loadingIndicator) ==
  appendMessage(s, "<strong>Error:</strong> " \o UserFriendlyMessage(error), "model", <<>>)

handleApiError(s, error, loadingIndicator) ==
  appendMessage(RemoveIndicator(s, loadingIndicator), "<strong>Error:</strong> " \o UserFriendlyMessage(error), "model", <<>>)

\* a showInitialState that leaves the pointer to the last story in place
showInitialState_KeepsPointer(s) ==
  [s EXCEPT
    !.chatContainer = <<>>,
    !.regenerateButton = FALSE,
    !.quickReplies = <<>>,
    !.currentHistory = <<>>,
    !.currentChatTitle = Null,
    !.startWeavingDisabled = FALSE,
    !.saveTimeoutId = FALSE,
    !.scheduled = NoSnapshot]

showInitialState(s) ==
  [s EXCEPT
    !.chatContainer = <<>>,                            \* chatContainer.innerHTML = ''
    !.regenerateButton = FALSE,
    !.quickReplies = <<>>,
    !.currentHistory = <<>>,
    !.currentChatTitle = Null,
    !.localStorage = removeItem(s.localStorage, CURRENT_CHAT_KEY),
    !.startWeavingDisabled = FALSE,
    !.saveTimeoutId = FALSE,                           \* clearTimeout(saveTimeoutId)
    !.scheduled = NoSnapshot]

\* a sendMessage that shows the user message and does not push it
sendMessage_NoPush(s, userMessage) ==
  IF NoTitle(s.currentChatTitle) THEN s
  ELSE LET shown == appendMessage(appendMessage(s, userMessage, "user", <<>>),
                                  "", "loading", <<>>)
       IN [scheduleSave(shown) EXCEPT !.inflight =
             s.inflight (+) SetToBag({[kind |-> "story", title |-> s.currentChatTitle,
                                       loadingIndicator |-> shown.loadingCount]})]

\* the part of sendMessage that runs before its await
sendMessage(s, userMessage) ==
  IF NoTitle(s.currentChatTitle) THEN s
  ELSE LET shown == appendMessage(appendMessage(s, userMessage, "user", <<>>),
                                  "", "loading", <<>>)
           pushed == [shown EXCEPT
                       !.currentHistory = Append(s.currentHistory, Turn("user", userMessage))]
           saved == scheduleSave(pushed)
       IN [saved EXCEPT !.inflight =
             s.inflight (+) SetToBag({[kind |-> "story", title |-> s.currentChatTitle,
                                       loadingIndicator |-> shown.loadingCount]})]

\* a storyPart that does not fall back to the raw text of a response
StoryPart_NoRawText(text) ==
  LET jsonResponse == JSONparse(text) IN
  IF ~jsonResponse.ok THEN ""
  ELSE IF "story_part" \in DOMAIN jsonResponse.value /\ jsonResponse.value.story_part # ""
    THEN jsonResponse.value.story_part
    ELSE "Error: The model's response was not in the correct format. Here is the raw response: "
         \o text

\* storyPart and suggestions of a response, lines 440-454
StoryPart(text) ==
  LET jsonResponse == JSONparse(text) IN
  IF ~jsonResponse.ok THEN text
  ELSE IF "story_part" \in DOMAIN jsonResponse.value /\ jsonResponse.value.story_part # ""
    THEN jsonResponse.value.story_part
    ELSE "Error: The model's response was not in the correct format. Here is the raw response: "
         \o text

Suggestions(text) ==
  LET jsonResponse == JSONparse(text) IN
  IF jsonResponse.ok /\ "suggestions" \in DOMAIN jsonResponse.value
    THEN jsonResponse.value.suggestions
    ELSE <<>>

\* the model turn of a response, shown and pushed, lines 460-463
acceptStory(s, loadingIndicator, text) ==
  LET shown == appendMessage(RemoveIndicator(s, loadingIndicator),
                             StoryPart(text), "model", Suggestions(text))
      pushed == [shown EXCEPT
                  !.currentHistory =
                     Append(s.currentHistory, Turn("model", StoryPart(text)))]
  IN scheduleSave(pushed)

\* a sendMessage whose catch block rolls the user turn back
sendMessageResumes_RollsBack(s, loadingIndicator, outcome) ==
  LET rolled == [s EXCEPT !.currentHistory =
                   SubSeq(s.currentHistory, 1, Len(s.currentHistory) - 1)] IN
  IF ~outcome.ok THEN handleApiError(rolled, outcome.error, loadingIndicator)
  ELSE IF StoryPart(outcome.text) = ""
    THEN handleApiError(rolled, Error(<<"API response is missing 'story_part'.">>),
                        loadingIndicator)
  ELSE acceptStory(s, loadingIndicator, outcome.text)

\* the part of sendMessage that runs when the backend has answered:
\* outcome is [ok |-> TRUE, text |-> response.text] or [ok |-> FALSE, error |-> e]
sendMessageResumes(s, loadingIndicator, outcome) ==
  IF ~outcome.ok THEN handleApiError(s, outcome.error, loadingIndicator)
  ELSE IF StoryPart(outcome.text) = ""
    THEN handleApiError(RemoveIndicator(s, loadingIndicator),
                        Error(<<"API response is missing 'story_part'.">>),
                        loadingIndicator)
  ELSE acceptStory(s, loadingIndicator, outcome.text)

\* the chat container without its last .user-message-container (user = TRUE)
\* or its last .model-message-container (user = FALSE), if it has one
RemoveLast(container, user) ==
  LET found == {i \in 1..Len(container) : (container[i].sender = "user") = user} IN
  IF found = {} THEN container
  ELSE LET last_i == CHOOSE i \in found : \A j \in found : j <= i IN
       SubSeq(container, 1, last_i - 1) \o SubSeq(container, last_i + 1, Len(container))

\* the last model and user messages and the quick replies leave the container
RemoveLastExchange(s) ==
  [s EXCEPT
    !.chatContainer = RemoveLast(RemoveLast(s.chatContainer, FALSE), TRUE),
    !.regenerateButton = FALSE,                        \* it was on the last message
    !.quickReplies = <<>>]

\* a regeneration that pops the model turn only
popAndResend_OnePop(s) ==
  LET n == Len(s.currentHistory) IN
  sendMessage([RemoveLastExchange(s) EXCEPT
                 !.currentHistory = SubSeq(s.currentHistory, 1, n - 1)],
              PartsText(s.currentHistory[n - 1]))

\* regenerateLastResponse past its guard, lines 472-487: the history has two
\* turns or more
popAndResend(s) ==
  LET n == Len(s.currentHistory)
      lastUserTurn == s.currentHistory[n - 1]
  IN sendMessage([RemoveLastExchange(s) EXCEPT
                    !.currentHistory = SubSeq(s.currentHistory, 1, n - 2)],
                 PartsText(lastUserTurn))

\* a regenerateLastResponse that returns on an empty history only: with one
\* turn the first pop empties the history and the second yields undefined
regenerateLastResponse_EmptyOnly(s) ==
  IF Len(s.currentHistory) < 1 THEN s
  ELSE IF Len(s.currentHistory) = 1
    THEN [RemoveLastExchange(s) EXCEPT !.currentHistory = <<>>]
  ELSE popAndResend(s)

regenerateLastResponse(s) ==
  IF Len(s.currentHistory) < 2 THEN s ELSE popAndResend(s)

\* the messages of a stored history, through appendMessage in order
RECURSIVE Replay(_, _)
Replay(s, history) ==
  IF history = <<>> THEN s
  ELSE Replay(appendMessage(s, PartsText(Head(history)), Head(history).role, <<>>),
              Tail(history))

\* a loadChat that makes the welcome message a turn of the history
loadChat_WelcomeTurn(s, title) ==
  LET data == getChatData(s.localStorage, title)
      opened == [s EXCEPT
                  !.currentChatTitle = title,
                  !.localStorage = setItem(s.localStorage, CURRENT_CHAT_KEY, PlainString(title)),
                  !.chatContainer = <<>>,
                  !.regenerateButton = FALSE,
                  !.quickReplies = <<>>,
                  !.currentSystemInstruction = data.systemInstruction,
                  !.currentHistory = data.history]
  IN IF data.history = <<>>
       THEN [appendMessage(opened, WELCOME_MESSAGE, "model", <<>>) EXCEPT
               !.currentHistory = <<Turn("model", WELCOME_MESSAGE)>>]
       ELSE Replay(opened, data.history)

\* a loadChat that writes the record of the story it opens
loadChat_SavesOnLoad(s, title) ==
  LET data == getChatData(s.localStorage, title)
      opened == [s EXCEPT
                  !.currentChatTitle = title,
                  !.localStorage =
                     saveChatData(setItem(s.localStorage, CURRENT_CHAT_KEY, PlainString(title)),
                                  title, data.history, data.systemInstruction),
                  !.chatContainer = <<>>,
                  !.regenerateButton = FALSE,
                  !.quickReplies = <<>>,
                  !.currentSystemInstruction = data.systemInstruction,
                  !.currentHistory = data.history]
  IN IF data.history = <<>>
       THEN appendMessage(opened, WELCOME_MESSAGE, "model", <<>>)
       ELSE Replay(opened, data.history)

loadChat(s, title) ==
  LET data == getChatData(s.localStorage, title)
      opened == [s EXCEPT
                  !.currentChatTitle = title,
                  !.localStorage = setItem(s.localStorage, CURRENT_CHAT_KEY, PlainString(title)),
                  !.chatContainer = <<>>,              \* chatContainer.innerHTML = ''
                  !.regenerateButton = FALSE,
                  !.quickReplies = <<>>,
                  !.currentSystemInstruction = data.systemInstruction,
                  !.currentHistory = data.history]
  IN IF data.history = <<>>
       THEN appendMessage(opened, WELCOME_MESSAGE, "model", <<>>)
       ELSE Replay(opened, data.history)

\* a saveSettings that leaves the write to the save scheduler
saveSettings_Debounced(s, newInstruction) ==
  IF NoTitle(s.currentChatTitle) THEN s
  ELSE IF Join(Trim(newInstruction)) = "" THEN s
  ELSE scheduleSave([s EXCEPT !.currentSystemInstruction = Join(Trim(newInstruction))])

\* newInstruction is systemInstructionInput.value
saveSettings(s, newInstruction) ==
  IF NoTitle(s.currentChatTitle) THEN s
  ELSE IF Join(Trim(newInstruction)) = "" THEN s
  ELSE LET set == [s EXCEPT !.currentSystemInstruction = Join(Trim(newInstruction))]
           written == [set EXCEPT !.localStorage =
                         saveChatData(s.localStorage, s.currentChatTitle, s.currentHistory,
                                      set.currentSystemInstruction)]
       IN loadChat(written, s.currentChatTitle)

----------------------------------------------------------------------------
(* New stories *)

\* new Date().toLocaleDateString(): the session runs on one day
LocaleDateString == "10/29/2026"

FallbackTitle == "Story from " \o LocaleDateString

\* the while loop of generateTitle, lines 383-389
RECURSIVE UniqueLoop(_, _, _, _)
UniqueLoop(savedChats, title, finalTitle, counter) ==
  IF Includes(savedChats, finalTitle)
    THEN UniqueLoop(savedChats, title, title \o " " \o ToString(counter), counter + 1)
    ELSE finalTitle

\* a loop whose counter starts at 1
UniqueTitle_FromOne(savedChats, title) == UniqueLoop(savedChats, title, title, 1)

\* a loop that evaluates savedChats.includes twice for each candidate
RECURSIVE IncludesCalls_Twice(_, _, _, _)
IncludesCalls_Twice(savedChats, title, finalTitle, counter) ==
  IF Includes(savedChats, finalTitle)
    THEN 2 + IncludesCalls_Twice(savedChats, title, title \o " " \o ToString(counter),
                                 counter + 1)
    ELSE 2

\* the number of times the condition of the while loop of generateTitle is
\* evaluated, from the candidate finalTitle on
RECURSIVE IncludesCalls(_, _, _, _)
IncludesCalls(savedChats, title, finalTitle, counter) ==
  IF Includes(savedChats, finalTitle)
    THEN 1 + IncludesCalls(savedChats, title, title \o " " \o ToString(counter), counter + 1)
    ELSE 1

\* let finalTitle = title; let counter = 2; while ...
UniqueTitle(savedChats, title) == UniqueLoop(savedChats, title, title, 2)

\* the title of a response: response.text.trim().replace(/"/g, '')
TitleOf(text) == Join(RemoveQuotes(Trim(text)))

\* what generateTitle returns once the backend has answered: outcome is
\* [ok |-> TRUE, text |-> response.text] or [ok |-> FALSE]
\* a generateTitle whose catch block returns no title
generateTitle_NoFallback(ls, outcome) ==
  IF ~outcome.ok THEN ""
  ELSE IF TitleOf(outcome.text) = "" THEN ""
  ELSE UniqueTitle(getSavedChats(ls), TitleOf(outcome.text))

generateTitle(ls, outcome) ==
  IF ~outcome.ok THEN FallbackTitle
  ELSE LET title == TitleOf(outcome.text) IN
    IF title = "" THEN FallbackTitle                   \* throw: catch
    ELSE UniqueTitle(getSavedChats(ls), title)

\* the genre of the initial form: the selected button and the custom input
\* (selected is the data-genre of the button, Null when it has none)
Genre(selected, custom) ==
  LET genre == IF selected \in {Null, ""} THEN "Default" ELSE selected IN
  IF genre = "Custom"
    THEN (IF Join(Trim(custom)) = "" THEN "Default" ELSE Join(Trim(custom)))
    ELSE genre

\* a handler that gives every story the default instruction
SystemInstructionFor_AlwaysDefault(genre) == DEFAULT_SYSTEM_INSTRUCTION

SystemInstructionFor(genre) ==
  IF genre = "Default" \/ genre = ""
    THEN DEFAULT_SYSTEM_INSTRUCTION
    ELSE "You are a master storyteller specializing in " \o genre
         \o ". Your goal is to weave imaginative and engaging tales for the user. When the user gives you a prompt, turn it into a captivating story in the "
         \o genre \o " style."

\* the submit handler of initialChatForm up to its await
startStory(s, prompt, selected, custom) ==
  LET userMessage == Join(Trim(prompt)) IN
  IF userMessage = "" THEN s                           \* alert
  ELSE [s EXCEPT
         !.startWeavingDisabled = TRUE,
         !.inflight = s.inflight (+) SetToBag({[kind |-> "title", prompt |-> userMessage,
                                                genre |-> Genre(selected, custom)]})]

\* generateTitle from its await on, lines 375-393: the title is returned to
\* the submit handler, which goes on in a microtask
generateTitleResumes(s, req, outcome) ==
  [s EXCEPT !.microtasks =
     Append(s.microtasks,
            [kind |-> "startStoryResumes", prompt |-> req.prompt, genre |-> req.genre,
             title |-> generateTitle(s.localStorage, outcome)])]

\* a handler that registers the title and writes no record for it
startStoryResumes_NoRecord(s, task) ==
  LET registered == [s EXCEPT !.localStorage = saveNewChatTitle(s.localStorage, task.title)]
      loaded == loadChat(registered, task.title)
  IN [loaded EXCEPT !.microtasks =
        Append(loaded.microtasks, [kind |-> "startStorySends", prompt |-> task.prompt, title |-> task.title])]

\* the submit handler of initialChatForm from `await generateTitle` to
\* `await loadChat`, lines 637-641; it goes on in a microtask
startStoryResumes(s, task) ==
  LET registered == saveNewChatTitle(s.localStorage, task.title)
      created == [s EXCEPT !.localStorage =
                    saveChatData(registered, task.title, <<>>, SystemInstructionFor(task.genre))]
      loaded == loadChat(created, task.title)
  IN [loaded EXCEPT !.microtasks =
        Append(loaded.microtasks, [kind |-> "startStorySends", prompt |-> task.prompt, title |-> task.title])]

\* the submit handler of initialChatForm after `await loadChat`, line 643
startStorySends(s, task) == sendMessage(s, task.prompt)

\* the submit handler of chatForm
chatFormSubmit(s, input) ==
  LET userMessage == Join(Trim(input)) IN
  IF userMessage = "" THEN s ELSE sendMessage(s, userMessage)

\* button.onclick of a quick reply
quickReplyClick(s, suggestion) ==
  [sendMessage(s, suggestion) EXCEPT !.quickReplies = <<>>]

\* an initial load that does not look the pointer up in the catalog
initializeApp_NoCatalogCheck(s) ==
  LET lastChat == getItem(s.localStorage, CURRENT_CHAT_KEY) IN
  IF ~Falsy(lastChat) THEN loadChat(s, lastChat.v) ELSE showInitialState(s)

\* initializeApp with an API key, lines 674-680
initializeApp(s) ==
  LET lastChat == getItem(s.localStorage, CURRENT_CHAT_KEY) IN
  IF ~Falsy(lastChat) /\ Includes(getSavedChats(s.localStorage), lastChat.v)
    THEN loadChat(s, lastChat.v)
    ELSE showInitialState(s)

\* initializeApp without an API key, lines 560-568
initializeAppNoKey(s) ==
  appendMessage(showInitialState(s),
    "<strong>Error:</strong> API key not found. Please set the API_KEY environment variable.",
    "model", <<>>)

----------------------------------------------------------------------------
(* Inputs *)

ChatInputs == {<<" ">>, <<" ", "go left">>}
PromptInputs == {<<>>, <<"A dragon guards a library", " ">>}
\* the selected genre button and the custom genre input
GenreInputs == {<<"Fantasy", <<>>>>, <<"Custom", <<" ">>>>}
InstructionInputs == {<<" ">>, <<"Be brief.", " ">>}

StoryOutcomes ==
  {[ok |-> TRUE, text |-> txt] : txt \in {TextStory, TextNoStory, TextPlain, TextEmpty}}
  \cup {[ok |-> FALSE, error |-> Error(<<"503", " Service Unavailable">>)]}

\* a response of two quotes: the title is empty
EmptyTitleText == <<"\"", "\"">>

TitleOutcomes ==
  {[ok |-> TRUE, text |-> txt] : txt \in {<<" ", "\"", "A", "\"">>, EmptyTitleText}}
  \cup {[ok |-> FALSE]}

\* localStorage as a session finds it: empty, or with two stories, "A" saved
\* by this version and "B" in the old format (a bare array), "A" opened last
InitialStorages ==
  { [k \in {} |-> NullItem],
    (SAVED_CHATS_KEY :> JSONstringify(JArray(<<"A", "B">>)))
      @@ (CURRENT_CHAT_KEY :> PlainString("A"))
      @@ ((HISTORY_KEY_PREFIX \o "A") :>
            JSONstringify(JObject(ChatData(
              <<Turn("user", "go left"), Turn("model", "you fall")>>,
              DEFAULT_SYSTEM_INSTRUCTION))))
      @@ ((HISTORY_KEY_PREFIX \o "B") :>
            JSONstringify(JArray(<<Turn("user", "run"), Turn("model", "you hide")>>))) }

TitleRequests(s) == {r \in BagToSet(s.inflight) : r.kind = "title"}
StoryRequests(s) == {r \in BagToSet(s.inflight) : r.kind = "story"}

Answered(s, req) == [s EXCEPT !.inflight = s.inflight (-) SetToBag({req})]

\* the first microtask is taken from the queue
Dequeued(s) == [s EXCEPT !.microtasks = Tail(s.microtasks)]


----------------------------------------------------------------------------
(* The state machine *)

\* the script's variables as declared, on the localStorage ls
Loaded(ls) ==
  [currentHistory |-> <<>>,
   currentChatTitle |-> Null,
   currentSystemInstruction |-> DEFAULT_SYSTEM_INSTRUCTION,
   saveTimeoutId |-> FALSE,
   localStorage |-> ls,
   chatContainer |-> <<>>,
   loadingCount |-> 0,
   regenerateButton |-> FALSE,
   quickReplies |-> <<>>,
   startWeavingDisabled |-> FALSE,
   inflight |-> EmptyBag,
   microtasks |-> <<>>,
   scheduled |-> NoSnapshot]

\* the variables of the script have the values of s
Is(s) ==
  /\ currentHistory = s.currentHistory
  /\ currentChatTitle = s.currentChatTitle
  /\ currentSystemInstruction = s.currentSystemInstruction
  /\ saveTimeoutId = s.saveTimeoutId
  /\ localStorage = s.localStorage
  /\ chatContainer = s.chatContainer
  /\ loadingCount = s.loadingCount
  /\ regenerateButton = s.regenerateButton
  /\ quickReplies = s.quickReplies
  /\ startWeavingDisabled = s.startWeavingDisabled
  /\ inflight = s.inflight
  /\ microtasks = s.microtasks
  /\ scheduled = s.scheduled

Init ==
  /\ currentHistory = <<>>
  /\ currentChatTitle = Null
  /\ currentSystemInstruction = DEFAULT_SYSTEM_INSTRUCTION
  /\ saveTimeoutId = FALSE
  /\ localStorage \in InitialStorages
  /\ chatContainer = <<>>
  /\ loadingCount = 0
  /\ regenerateButton = FALSE
  /\ quickReplies = <<>>
  /\ startWeavingDisabled = FALSE
  /\ inflight = EmptyBag
  /\ microtasks = <<>>
  /\ phase = "boot"
  /\ scheduled = NoSnapshot
  /\ events = 0
  /\ failed = FALSE
  /\ last = [op |-> "none"]

\* the title request resolved with a title that is not empty
TitleGenerated(outcome) == outcome.ok /\ TitleOf(outcome.text) # ""

\* the story request resolved with a story: a JSON object with a story_part
\* that is not empty, or a text that is not JSON and not empty
StoryGenerated(outcome) ==
  /\ outcome.ok
  /\ IF JSONparse(outcome.text).ok
       THEN /\ "story_part" \in DOMAIN JSONparse(outcome.text).value
            /\ JSONparse(outcome.text).value.story_part # ""
       ELSE outcome.text # ""

\* A backend call is settled by a task of its own: the microtasks left by
\* the task before have all run.
Settling == microtasks = <<>>

\* an event is handled when no microtask is left
UserEvent ==
  /\ phase = "running"
  /\ microtasks = <<>>
  /\ events < MaxEvents
  /\ events' = events + 1
  /\ failed' = failed
  /\ phase' = phase

\* the script is loaded: initializeApp()
InitializeApp ==
  /\ phase = "boot"
  /\ \E apiKey \in BOOLEAN :
       /\ Becomes(IF apiKey THEN initializeApp(State) ELSE initializeAppNoKey(State))
       /\ phase' = IF apiKey THEN "running" ELSE "nokey"
  /\ last' = [op |-> "initializeApp"]
  /\ UNCHANGED <<events, failed>>

\* click on newChatBtn
NewChatClick ==
  /\ UserEvent
  /\ Becomes(showInitialState(State))
  /\ last' = [op |-> "showInitialState"]

\* click on a story of the saved stories list
SavedChatClick ==
  /\ UserEvent
  /\ \E i \in 1..Len(getSavedChats(localStorage)) :
       LET title == getSavedChats(localStorage)[i] IN
       /\ Becomes(loadChat(State, title))
       /\ last' = [op |-> "loadChat", title |-> title]

\* submit of initialChatForm, shown while no story is open
InitialFormSubmit ==
  /\ UserEvent
  /\ NoTitle(currentChatTitle)
  /\ ~startWeavingDisabled
  /\ \E prompt \in PromptInputs, genre \in GenreInputs :
       /\ Becomes(startStory(State, prompt, genre[1], genre[2]))
       /\ last' = [op |-> "startStory", text |-> Join(Trim(prompt))]

\* the title request is answered: generateTitle goes on and returns
TitleAnswered ==
  /\ Settling
  /\ \E req \in TitleRequests(State), outcome \in TitleOutcomes :
       /\ Becomes(generateTitleResumes(Answered(State, req), req, outcome))
       /\ last' = [op |-> "generateTitleResumes", text |-> req.prompt, genre |-> req.genre,
                   outcome |-> outcome]
       /\ failed' = (failed \/ ~TitleGenerated(outcome))
  /\ UNCHANGED <<events, phase>>

\* the microtask after `await generateTitle`
StartStoryResumes ==
  /\ microtasks # <<>>
  /\ Head(microtasks).kind = "startStoryResumes"
  /\ Becomes(startStoryResumes(Dequeued(State), Head(microtasks)))
  /\ last' = [op |-> "startStoryResumes", text |-> Head(microtasks).prompt,
              genre |-> Head(microtasks).genre, title |-> Head(microtasks).title]
  /\ UNCHANGED <<events, phase, failed>>

\* the microtask after `await loadChat`
StartStorySends ==
  /\ microtasks # <<>>
  /\ Head(microtasks).kind = "startStorySends"
  /\ Becomes(startStorySends(Dequeued(State), Head(microtasks)))
  /\ last' = [op |-> "startStorySends", text |-> Head(microtasks).prompt,
              title |-> Head(microtasks).title]
  /\ UNCHANGED <<events, phase, failed>>

\* submit of chatForm, shown while a story is open
ChatFormSubmit ==
  /\ UserEvent
  /\ ~NoTitle(currentChatTitle)
  /\ \E input \in ChatInputs :
       /\ Becomes(chatFormSubmit(State, input))
       /\ last' = [op |-> "chatFormSubmit", text |-> Join(Trim(input))]

\* click on a quick reply
QuickReplyClick ==
  /\ UserEvent
  /\ \E i \in 1..Len(quickReplies) :
       /\ Becomes(quickReplyClick(State, quickReplies[i]))
       /\ last' = [op |-> "quickReplyClick", text |-> quickReplies[i]]

\* click on the regenerate button
RegenerateClick ==
  /\ UserEvent
  /\ regenerateButton
  /\ Becomes(regenerateLastResponse(State))
  /\ last' = [op |-> "regenerateLastResponse", before |-> currentHistory]

\* a story request is answered
StoryAnswered ==
  /\ Settling
  /\ \E req \in StoryRequests(State), outcome \in StoryOutcomes :
       /\ Becomes(sendMessageResumes(Answered(State, req), req.loadingIndicator, outcome))
       /\ last' = [op |-> "sendMessageResumes", title |-> req.title, outcome |-> outcome]
       /\ failed' = (failed \/ ~StoryGenerated(outcome))
  /\ UNCHANGED <<events, phase>>

\* the quiet period of scheduleSave has passed
SaveTimeout ==
  /\ saveTimeoutId
  /\ microtasks = <<>>
  /\ Becomes(saveTimeout(State))
  /\ last' = [op |-> "saveTimeout"]
  /\ UNCHANGED <<events, phase, failed>>

\* click on saveSettingsBtn
SaveSettingsClick ==
  /\ UserEvent
  /\ \E input \in InstructionInputs :
       /\ Becomes(saveSettings(State, input))
       /\ last' = [op |-> "saveSettings", text |-> Join(Trim(input))]

Next ==
  \/ InitializeApp
  \/ NewChatClick
  \/ SavedChatClick
  \/ InitialFormSubmit
  \/ TitleAnswered
  \/ StartStoryResumes
  \/ StartStorySends
  \/ ChatFormSubmit
  \/ QuickReplyClick
  \/ RegenerateClick
  \/ StoryAnswered
  \/ SaveTimeout
  \/ SaveSettingsClick

Spec == Init /\ [][Next]_vars

----------------------------------------------------------------------------
(* Properties of the conversation state machine *)

\* the backend returned a structured response with a story text
StoryReturned(outcome) ==
  /\ outcome.ok
  /\ JSONparse(outcome.text).ok
  /\ "story_part" \in DOMAIN JSONparse(outcome.text).value
  /\ JSONparse(outcome.text).value.story_part # ""

\* the backend call failed, or returned no text at all
CallFailed(outcome) == ~outcome.ok \/ outcome.text = TextEmpty

ErrorOf(outcome) ==
  IF ~outcome.ok THEN outcome.error ELSE Error(<<"API response is missing 'story_part'.">>)

\* the story requests awaited that were issued while title was open
RequestsOf(bag, title) == {r \in BagToSet(bag) : r.kind = "story" /\ r.title = title}

\* the history ends with a user turn followed by a model turn
EndsWithPair(history) ==
  /\ Len(history) >= 2
  /\ history[Len(history) - 1].role = "user"
  /\ history[Len(history)].role = "model"

(* C1: a response to a request that was issued while conversation A was    *)
(* open, arriving while another conversation B is open, is discarded: it   *)
(* changes neither the turns in memory (B's) nor anything stored.          *)
C1_ResponseDiscardedAfterSwitch ==
  [][(/\ last'.op = "sendMessageResumes"
      /\ ~NoTitle(currentChatTitle)
      /\ last'.title # currentChatTitle)
     => (currentHistory' = currentHistory /\ localStorage' = localStorage)]_vars

(* C2: at most one story request is awaited per conversation, whatever the *)
(* user does while one is awaited.                                         *)
C2_OneRequestPerConversation ==
  \A r \in BagToSet(inflight) :
    r.kind = "story" => Cardinality(RequestsOf(inflight, r.title)) <= 1

(* C3: the one write of the save scheduler stores, under the key of the    *)
(* conversation that was open at the last scheduleSave call, the turns of  *)
(* that conversation as they were at that call, and writes no other key.   *)
C3_WriteHoldsStateOfLastCall ==
  [][(last'.op = "saveTimeout" /\ ~NoTitle(scheduled.title))
     => (/\ getChatData(localStorage', scheduled.title).history = scheduled.history
         /\ \A k \in DOMAIN localStorage :
              k # HISTORY_KEY_PREFIX \o scheduled.title
                => (k \in DOMAIN localStorage' /\ localStorage'[k] = localStorage[k]))]_vars

(* C4: a successful exchange appends exactly two turns at the end of the   *)
(* history in memory: submitting a text appends the user turn with that    *)
(* text before the backend is called (one more request is awaited), and    *)
(* the structured response appends one model turn with the story text      *)
(* returned; neither step adds, removes or changes any other turn.         *)
C4_ExchangeAppendsUserThenModel ==
  [][/\ (/\ last'.op \in {"chatFormSubmit", "quickReplyClick"}
         /\ last'.text # ""
         /\ ~NoTitle(currentChatTitle))
        => (/\ currentHistory' = Append(currentHistory, Turn("user", last'.text))
            /\ BagCardinality(inflight') = BagCardinality(inflight) + 1)
     /\ (last'.op = "sendMessageResumes" /\ StoryReturned(last'.outcome))
        => (/\ currentHistory' =
                 Append(currentHistory,
                        Turn("model", JSONparse(last'.outcome.text).value.story_part))
            /\ BagCardinality(inflight') = BagCardinality(inflight) - 1)]_vars

C4_Witness ==
  /\ last.op = "sendMessageResumes"
  /\ StoryReturned(last.outcome)
  /\ currentChatTitle = last.title
  /\ Len(currentHistory) = 4
  /\ currentHistory[3] = Turn("user", "go left")
  /\ currentHistory[4] = Turn("model", "you fall")

(* C5: when the backend call fails the history is left as it is, the user  *)
(* turn of the request included (no rollback, no model turn), and the      *)
(* message of the error's category is shown as the last message.           *)
C5_FailureKeepsUserTurn ==
  [][(last'.op = "sendMessageResumes" /\ CallFailed(last'.outcome))
     => (/\ currentHistory' = currentHistory
         /\ chatContainer' # <<>>
         /\ chatContainer'[Len(chatContainer')] =
              Message("<strong>Error:</strong> " \o UserFriendlyMessage(ErrorOf(last'.outcome)),
                      "model", 0))]_vars

C5_Witness ==
  /\ last.op = "sendMessageResumes"
  /\ ~last.outcome.ok
  /\ currentChatTitle = last.title
  /\ currentHistory =
       <<Turn("user", "go left"), Turn("model", "you fall"), Turn("user", "go left")>>
  /\ chatContainer[Len(chatContainer)].content =
       "<strong>Error:</strong> The service is temporarily unavailable. Please try again in a few moments."

(* C6: for a history that ends with a user turn u and a model turn,        *)
(* regeneration removes both and submits the text of u again: the history  *)
(* becomes the earlier turns followed by a user turn with that text, and   *)
(* one more request is awaited; when the next thing to happen is a         *)
(* structured response, the history then has the length it had before the  *)
(* regeneration, the same earlier turns, and ends with the user turn and   *)
(* one new model turn.                                                     *)
C6_RegenerationResubmits ==
  [][/\ (last'.op = "regenerateLastResponse" /\ EndsWithPair(currentHistory))
        => LET n == Len(currentHistory) IN
           /\ currentHistory' =
                Append(SubSeq(currentHistory, 1, n - 2),
                       Turn("user", PartsText(currentHistory[n - 1])))
           /\ BagCardinality(inflight') = BagCardinality(inflight) + 1
     /\ (/\ last.op = "regenerateLastResponse"
         /\ EndsWithPair(last.before)
         /\ last'.op = "sendMessageResumes"
         /\ StoryReturned(last'.outcome))
        => LET n == Len(last.before) IN
           /\ Len(currentHistory') = n
           /\ SubSeq(currentHistory', 1, n - 2) = SubSeq(last.before, 1, n - 2)
           /\ currentHistory'[n - 1] = Turn("user", PartsText(last.before[n - 1]))
           /\ currentHistory'[n].role = "model"]_vars

C6_Witness ==
  /\ last.op = "regenerateLastResponse"
  /\ Len(last.before) = 4
  /\ EndsWithPair(last.before)
  /\ currentHistory = Append(SubSeq(last.before, 1, 2), Turn("user", "go left"))
  /\ RequestsOf(inflight, currentChatTitle) # {}

(* C7: with a history of no turn or one turn, regeneration changes neither *)
(* the history, nor localStorage, nor the pending save, and calls no       *)
(* backend.                                                                *)
C7_RegenerationNoOp ==
  [][(last'.op = "regenerateLastResponse" /\ Len(currentHistory) < 2)
     => UNCHANGED <<currentHistory, currentChatTitle, currentSystemInstruction,
                    localStorage, saveTimeoutId, inflight>>]_vars

C7_Witness ==
  /\ last.op = "regenerateLastResponse"
  /\ Len(last.before) = 1
  /\ ~NoTitle(currentChatTitle)
  /\ currentHistory = last.before

(* C10: when the title request fails or returns an empty title, the story  *)
(* is still started: the handler goes on with the fallback title, which    *)
(* it puts in the catalog and opens, and when it sends the prompt the       *)
(* fallback story is the open and the last-opened one and the prompt is    *)
(* its first and only turn, a user turn whose request is awaited.          *)
C10_TitleFailureStartsStory ==
  [][/\ (/\ last'.op = "generateTitleResumes"
          /\ (~last'.outcome.ok \/ last'.outcome.text = EmptyTitleText))
        => (/\ microtasks' # <<>>
            /\ microtasks'[Len(microtasks')].title = FallbackTitle)
     /\ (last'.op = "startStoryResumes" /\ last'.title = FallbackTitle)
        => (/\ currentChatTitle' = FallbackTitle
            /\ Includes(getSavedChats(localStorage'), FallbackTitle)
            /\ getItem(localStorage', CURRENT_CHAT_KEY) = PlainString(FallbackTitle))
     /\ (last'.op = "startStorySends" /\ last'.title = FallbackTitle)
        => (/\ currentChatTitle' = FallbackTitle
            /\ getItem(localStorage', CURRENT_CHAT_KEY) = PlainString(FallbackTitle)
            /\ currentHistory' = <<Turn("user", last'.text)>>
            /\ RequestsOf(inflight', FallbackTitle) # {})]_vars

\* the title call was rejected and the prompt has been sent in the story
\* of the fallback title
C10_Witness ==
  /\ last.op = "startStorySends"
  /\ last.title = FallbackTitle
  /\ failed
  /\ currentChatTitle = FallbackTitle
  /\ Includes(getSavedChats(localStorage), FallbackTitle)
  /\ currentHistory = <<Turn("user", "A dragon guards a library")>>
  /\ RequestsOf(inflight, FallbackTitle) # {}

----------------------------------------------------------------------------
\* the response is a JSON object without a story text
StoryMissing(outcome) ==
  /\ outcome.ok
  /\ JSONparse(outcome.text).ok
  /\ ~StoryReturned(outcome)

\* the response is a text, not empty, that JSON.parse rejects
RawText(outcome) ==
  /\ outcome.ok
  /\ outcome.text # ""
  /\ ~JSONparse(outcome.text).ok

(* C11: a response that parses as a JSON object and has no story text      *)
(* fails the turn: no model turn is appended to the history, and the       *)
(* message shown is an error message.                                      *)
C11_MissingStoryFailsTurn ==
  [][(last'.op = "sendMessageResumes" /\ StoryMissing(last'.outcome))
     => (/\ currentHistory' = currentHistory
         /\ chatContainer' # <<>>
         /\ chatContainer'[Len(chatContainer')] =
              Message("<strong>Error:</strong> "
                        \o UserFriendlyMessage(Error(<<"API response is missing 'story_part'.">>)),
                      "model", 0))]_vars

(* C12: a response whose text is not empty and is not JSON appends one     *)
(* model turn with exactly that text, shows that text as the last message  *)
(* (no error message), and leaves no quick reply.                          *)
C12_RawTextIsTheStory ==
  [][(last'.op = "sendMessageResumes" /\ RawText(last'.outcome))
     => (/\ currentHistory' = Append(currentHistory, Turn("model", last'.outcome.text))
         /\ chatContainer' # <<>>
         /\ chatContainer'[Len(chatContainer')] = Message(last'.outcome.text, "model", 0)
         /\ quickReplies' = <<>>)]_vars

C12_Witness ==
  /\ last.op = "sendMessageResumes"
  /\ last.outcome = [ok |-> TRUE, text |-> TextPlain]
  /\ currentChatTitle = last.title
  /\ Len(currentHistory) = 4
  /\ currentHistory[4] = Turn("model", "Once upon a time...")
  /\ quickReplies = <<>>

(* C13: the save scheduler writes nothing while no conversation is open.   *)
(* Abandoning the conversation cancels the pending save and changes no     *)
(* stored item but the last-opened pointer; a timeout that fires while no  *)
(* conversation is open leaves localStorage as it is; and a timeout that   *)
(* fires while one is open writes under the title open at that moment.     *)
C13_NoWriteWithoutConversation ==
  [][/\ (last'.op = "saveTimeout" /\ NoTitle(currentChatTitle))
        => localStorage' = localStorage
     /\ (last'.op = "saveTimeout" /\ ~NoTitle(currentChatTitle))
        => localStorage' = saveChatData(localStorage, currentChatTitle, currentHistory,
                                        currentSystemInstruction)
     /\ last'.op = "showInitialState"
        => (/\ ~saveTimeoutId'
            /\ NoTitle(currentChatTitle')
            /\ localStorage' = removeItem(localStorage, CURRENT_CHAT_KEY))]_vars

\* a save was scheduled after the conversation was abandoned (by a response
\* that arrived late) and its timeout has fired
C13_Witness ==
  /\ last.op = "saveTimeout"
  /\ NoTitle(currentChatTitle)
  /\ currentHistory = <<Turn("model", "you fall")>>
  /\ ~saveTimeoutId
  /\ getChatData(localStorage, "A").history =
       <<Turn("user", "go left"), Turn("model", "you fall")>>

(* C15: saveSettings with an instruction that is not empty once trimmed,   *)
(* while a story is open, sets the instruction in memory and writes the    *)
(* record of the open story in the same step, whether a save is pending or *)
(* not: the record holds the new instruction and the turns in memory,      *)
(* which stay as they are, and no other record changes.  With an empty     *)
(* instruction, or while no story is open, it changes nothing.             *)
C15_SettingsWrittenAtOnce ==
  [][last'.op = "saveSettings"
     => IF last'.text # "" /\ ~NoTitle(currentChatTitle)
          THEN /\ currentSystemInstruction' = last'.text
               /\ getItem(localStorage', HISTORY_KEY_PREFIX \o currentChatTitle) =
                    JSONstringify(JObject(ChatData(currentHistory, last'.text)))
               /\ \A k \in DOMAIN localStorage :
                    k # HISTORY_KEY_PREFIX \o currentChatTitle
                      => getItem(localStorage', k) = localStorage[k]
               /\ UNCHANGED <<currentHistory, currentChatTitle, saveTimeoutId, inflight>>
          ELSE UNCHANGED <<currentHistory, currentChatTitle, currentSystemInstruction,
                           localStorage, saveTimeoutId, inflight, chatContainer>>]_vars

\* the instruction was saved while the save of a new user turn was pending:
\* the record already holds that turn and the new instruction
C15_Witness ==
  /\ last.op = "saveSettings"
  /\ last.text = "Be brief."
  /\ currentChatTitle = "A"
  /\ currentSystemInstruction = "Be brief."
  /\ saveTimeoutId
  /\ Len(currentHistory) = 3
  /\ getChatData(localStorage, "A") = ChatData(currentHistory, "Be brief.")

\* the turns of history whose text is the welcome message
WelcomeTurns(history) ==
  {i \in 1..Len(history) : PartsText(history[i]) = WELCOME_MESSAGE}

\* the welcome messages shown
WelcomeShown(container) ==
  {i \in 1..Len(container) : container[i].content = WELCOME_MESSAGE}

(* C16: the welcome message is shown and nothing else: it is never the     *)
(* text of a turn of the history in memory nor of a turn of the record of  *)
(* a story of the catalog, the chat container never shows it twice, and    *)
(* loading a story whose record has no turn shows it as the one and only   *)
(* message.                                                                *)
C16_WelcomeIsDisplayOnly ==
  /\ [](/\ WelcomeTurns(currentHistory) = {}
        /\ \A i \in 1..Len(getSavedChats(localStorage)) :
             WelcomeTurns(getChatData(localStorage, getSavedChats(localStorage)[i]).history) = {}
        /\ Cardinality(WelcomeShown(chatContainer)) <= 1)
  /\ [][(last'.op = "loadChat" /\ getChatData(localStorage, last'.title).history = <<>>)
        => (/\ chatContainer' = <<Message(WELCOME_MESSAGE, "model", 0)>>
            /\ currentHistory' = <<>>)]_vars

\* a story that was started and whose record has no turn yet is loaded again
C16_Witness ==
  /\ last.op = "loadChat"
  /\ currentChatTitle = last.title
  /\ getChatData(localStorage, last.title).history = <<>>
  /\ Includes(getSavedChats(localStorage), last.title)
  /\ currentHistory = <<>>
  /\ chatContainer = <<Message(WELCOME_MESSAGE, "model", 0)>>

(* C17: every title of the catalog has a record stored under its own key.  *)
C17_CatalogTitlesHaveRecords ==
  \A i \in 1..Len(getSavedChats(localStorage)) :
    /\ (HISTORY_KEY_PREFIX \o getSavedChats(localStorage)[i]) \in DOMAIN localStorage
    /\ getItem(localStorage, HISTORY_KEY_PREFIX \o getSavedChats(localStorage)[i]).json

\* a third story has just been registered, next to "A" and "B"
C17_Witness ==
  /\ last.op = "startStoryResumes"
  /\ getSavedChats(localStorage) = <<"A", "B", "A 2">>
  /\ currentChatTitle = "A 2"
  /\ getItem(localStorage, HISTORY_KEY_PREFIX \o "A 2") =
       JSONstringify(JObject(ChatData(<<>>,
         SystemInstructionFor("Fantasy"))))

\* the number of times title occurs in the catalog
Occurrences(catalog, title) == Cardinality({i \in 1..Len(catalog) : catalog[i] = title})

\* the response is shown and pushed as a model turn
Accepted(outcome) == outcome.ok /\ outcome.text # TextEmpty

\* the instruction of a story of genre
InstructionOf(genre) ==
  IF genre \in {"Default", ""}
    THEN DEFAULT_SYSTEM_INSTRUCTION
    ELSE "You are a master storyteller specializing in " \o genre
         \o ". Your goal is to weave imaginative and engaging tales for the user. When the user gives you a prompt, turn it into a captivating story in the "
         \o genre \o " style."

(* C22: a new story is started end to end.  When the handler goes on with  *)
(* the generated title, the title occurs once in the catalog, is the open  *)
(* story, and the instruction, in memory and in its record, names the      *)
(* genre ("Fantasy") or is the default one for the genre "Default" or the  *)
(* empty genre.  When the handler sends the prompt, the story of that      *)
(* title is open and the prompt is its first and only turn, a user turn.   *)
(* When the response to the prompt is the next thing to happen and is      *)
(* accepted, the history has two turns, the prompt and one model turn.     *)
C22_NewStoryEndToEnd ==
  [][/\ last'.op = "startStoryResumes"
        => /\ currentChatTitle' = last'.title
           /\ Occurrences(getSavedChats(localStorage'), last'.title) = 1
           /\ currentSystemInstruction' = InstructionOf(last'.genre)
           /\ getChatData(localStorage', last'.title).systemInstruction
                = InstructionOf(last'.genre)
     /\ last'.op = "startStorySends"
        => /\ currentChatTitle' = last'.title
           /\ currentHistory' = <<Turn("user", last'.text)>>
     /\ (/\ last.op = "startStorySends"
         /\ last'.op = "sendMessageResumes"
         /\ Accepted(last'.outcome))
        => (/\ Len(currentHistory') = 2
            /\ currentHistory'[1] = Turn("user", last.text)
            /\ currentHistory'[2].role = "model")]_vars

\* a Fantasy story was started on an empty localStorage and the backend has
\* told its first part
C22_Witness ==
  /\ last.op = "sendMessageResumes"
  /\ StoryReturned(last.outcome)
  /\ currentChatTitle = "A"
  /\ getSavedChats(localStorage) = <<"A">>
  /\ currentSystemInstruction =
       "You are a master storyteller specializing in Fantasy. Your goal is to weave imaginative and engaging tales for the user. When the user gives you a prompt, turn it into a captivating story in the Fantasy style."
  /\ currentHistory =
       <<Turn("user", "A dragon guards a library"), Turn("model", "you fall")>>

\* the messages shown that are not loading indicators
Messages(container) == SelectSeq(container, LAMBDA m : m.indicator = 0)

\* the loading indicators shown
Indicators(container) ==
  {container[i].indicator : i \in {j \in 1..Len(container) : container[j].indicator # 0}}

(* C23: whatever the backend answers, the call ends in order.  No loading  *)
(* indicator is shown unless its call is awaited, so the indicator of an   *)
(* answered call is gone.  The step of the answer shows exactly one more   *)
(* message: for an accepted response the text of the one model turn it     *)
(* appends, else the message of the error with the history left as it is.  *)
(* The open story stays open, so that the next submit is taken, and the    *)
(* call is awaited no more.                                                *)
C23_AnsweredCallEndsInOrder ==
  /\ [](Indicators(chatContainer) \subseteq
          {r.loadingIndicator : r \in StoryRequests(State)})
  /\ [][last'.op = "sendMessageResumes"
        => (/\ Len(Messages(chatContainer')) = Len(Messages(chatContainer)) + 1
            /\ SubSeq(Messages(chatContainer'), 1, Len(Messages(chatContainer)))
                 = Messages(chatContainer)
            /\ LET shown == chatContainer'[Len(chatContainer')] IN
               /\ shown.sender = "model"
               /\ shown.indicator = 0
               /\ IF Accepted(last'.outcome)
                    THEN currentHistory' = Append(currentHistory, Turn("model", shown.content))
                    ELSE /\ currentHistory' = currentHistory
                         /\ shown.content = "<strong>Error:</strong> "
                                \o UserFriendlyMessage(ErrorOf(last'.outcome))
            /\ currentChatTitle' = currentChatTitle
            /\ BagCardinality(inflight') = BagCardinality(inflight) - 1)]_vars

\* two calls were awaited and one was rejected: its indicator is gone, the
\* error is shown, the other call is still awaited with its indicator
C23_Witness ==
  /\ last.op = "sendMessageResumes"
  /\ ~last.outcome.ok
  /\ currentChatTitle = last.title
  /\ BagCardinality(inflight) = 1
  /\ Cardinality(Indicators(chatContainer)) = 1
  /\ chatContainer[Len(chatContainer)].content =
       "<strong>Error:</strong> " \o UserFriendlyMessage(last.outcome.error)

\* user, model, user, model, ... from the first turn on
Alternates(history) ==
  \A i \in 1..Len(history) :
    history[i].role = (IF i % 2 = 1 THEN "user" ELSE "model")

(* C25: as long as no backend call has failed, the turns of the open       *)
(* story alternate user, model, user, model, ... from a user turn on, in   *)
(* memory and in its record.                                               *)
C25_TurnsAlternate ==
  (~failed /\ ~NoTitle(currentChatTitle))
  => (/\ Alternates(currentHistory)
      /\ Alternates(getChatData(localStorage, currentChatTitle).history))

(* C27: the text regeneration submits again is the text of a user turn:    *)
(* with a history of two turns or more that does not end with a model      *)
(* turn, regeneration removes no model turn and leaves the history as it   *)
(* is; in every case the turn whose text it submits has the role user.     *)
C27_RegenerationResendsUserText ==
  [][(last'.op = "regenerateLastResponse" /\ Len(currentHistory) >= 2)
     => LET n == Len(currentHistory) IN
        /\ currentHistory[n].role # "model" => currentHistory' = currentHistory
        /\ currentHistory' # currentHistory => currentHistory[n - 1].role = "user"]_vars

(* C29: starting a new story never overwrites a story of the catalog: the  *)
(* title startStoryResumes opens was absent from the catalog when it ran,  *)
(* also when it is the fallback title, and the turns recorded for the      *)
(* titles of the catalog are the same before and after.                    *)
C29_NewStoryOverwritesNothing ==
  [][last'.op = "startStoryResumes" =>
       /\ ~Includes(getSavedChats(localStorage), currentChatTitle')
       /\ \A i \in 1..Len(getSavedChats(localStorage)) :
            getChatData(localStorage', getSavedChats(localStorage)[i]).history
              = getChatData(localStorage, getSavedChats(localStorage)[i]).history]_vars

(* C30: once initializeApp has run, the pointer to the last story agrees   *)
(* with the session: when a story is open the pointer holds its title,     *)
(* when none is open there is no pointer, and a pointer that is there      *)
(* names a title of the catalog.                                           *)
C30_PointerAgreesWithSession ==
  phase # "boot" =>
    /\ ~NoTitle(currentChatTitle) =>
         getItem(localStorage, CURRENT_CHAT_KEY) = PlainString(currentChatTitle)
    /\ NoTitle(currentChatTitle) => CURRENT_CHAT_KEY \notin DOMAIN localStorage
    /\ CURRENT_CHAT_KEY \in DOMAIN localStorage =>
         Includes(getSavedChats(localStorage), getItem(localStorage, CURRENT_CHAT_KEY).v)

\* the reader has opened story B from the list, after story A was open
C30_Witness ==
  /\ last.op = "loadChat"
  /\ last.title = "B"
  /\ currentChatTitle = "B"
  /\ getItem(localStorage, CURRENT_CHAT_KEY) = PlainString("B")
  /\ Includes(getSavedChats(localStorage), "B")

\* the messages appendMessage shows for the turns of history, in their order
Rendered(history) ==
  [i \in 1..Len(history) |-> Message(PartsText(history[i]), history[i].role, 0)]

(* C31: opening a story from the list changes the open title, the pointer  *)
(* to the last story, and the turns and the instruction in memory, which   *)
(* become those recorded for the title; the turns are shown in the order   *)
(* of the record.  Every other item of localStorage, the catalog and the   *)
(* records among them, is left as it was, and so are the pending save and  *)
(* the backend calls that are awaited.                                     *)
C31_LoadChangesSessionOnly ==
  [][last'.op = "loadChat" =>
       LET title == last'.title
           data == getChatData(localStorage, title)
       IN /\ currentChatTitle' = title
          /\ getItem(localStorage', CURRENT_CHAT_KEY) = PlainString(title)
          /\ currentHistory' = data.history
          /\ currentSystemInstruction' = data.systemInstruction
          /\ data.history # <<>> => chatContainer' = Rendered(data.history)
          /\ DOMAIN localStorage' = DOMAIN localStorage \cup {CURRENT_CHAT_KEY}
          /\ \A key \in DOMAIN localStorage \ {CURRENT_CHAT_KEY} :
               localStorage'[key] = localStorage[key]
          /\ getSavedChats(localStorage') = getSavedChats(localStorage)
          /\ \A i \in 1..Len(getSavedChats(localStorage)) :
               getChatData(localStorage', getSavedChats(localStorage)[i])
                 = getChatData(localStorage, getSavedChats(localStorage)[i])
          /\ saveTimeoutId' = saveTimeoutId
          /\ inflight' = inflight]_vars

\* story B, recorded as a bare array of two turns, has been opened from the
\* list while a save was pending; the record is still the bare array
C31_Witness ==
  /\ last.op = "loadChat"
  /\ last.title = "B"
  /\ currentChatTitle = "B"
  /\ currentHistory = <<Turn("user", "run"), Turn("model", "you hide")>>
  /\ chatContainer = <<Message("run", "user", 0), Message("you hide", "model", 0)>>
  /\ getItem(localStorage, HISTORY_KEY_PREFIX \o "B")
       = JSONstringify(JArray(<<Turn("user", "run"), Turn("model", "you hide")>>))
  /\ saveTimeoutId

(* The store on its own: saveChatData and getChatData applied to bounded   *)
(* conversations, on a localStorage that holds records of this version, of *)
(* the old format, and strings that are not JSON.                          *)

\* a stored conversation has at most MaxStoredTurns turns
MaxStoredTurns == 2

StoredTurns == {Turn("user", "go left"), Turn("model", "you fall")}
Histories == UNION {[1..n -> StoredTurns] : n \in 0..MaxStoredTurns}
Instructions == {"", DEFAULT_SYSTEM_INSTRUCTION, "Be brief."}
StoreTitles == {"A", "B"}

StoreStorages ==
  { [k \in {} |-> NullItem],
    ((HISTORY_KEY_PREFIX \o "A") :> JSONstringify(JArray(<<Turn("user", "run")>>)))
      @@ ((HISTORY_KEY_PREFIX \o "B") :> PlainString("{\"history\":")) }

\* the script's variables as they are declared, lines 77-81
Declared ==
  /\ currentHistory = <<>>
  /\ currentChatTitle = Null
  /\ currentSystemInstruction = DEFAULT_SYSTEM_INSTRUCTION
  /\ saveTimeoutId = FALSE
  /\ chatContainer = <<>>
  /\ loadingCount = 0
  /\ regenerateButton = FALSE
  /\ quickReplies = <<>>
  /\ startWeavingDisabled = FALSE
  /\ inflight = EmptyBag
  /\ microtasks = <<>>
  /\ scheduled = NoSnapshot
  /\ events = 0
  /\ failed = FALSE
  /\ last = [op |-> "none"]

InitStore ==
  /\ Declared
  /\ localStorage \in StoreStorages
  /\ phase = "store"

SaveChatData ==
  /\ phase = "store"
  /\ \E title \in StoreTitles, history \in Histories, systemInstruction \in Instructions :
       /\ localStorage' = saveChatData(localStorage, title, history, systemInstruction)
       /\ last' = [op |-> "saveChatData", title |-> title, history |-> history,
                   systemInstruction |-> systemInstruction]
  /\ UNCHANGED <<currentHistory, currentChatTitle, currentSystemInstruction, saveTimeoutId,
                 chatContainer, loadingCount, regenerateButton, quickReplies,
                 startWeavingDisabled, inflight, microtasks, phase, scheduled, events, failed>>

GetChatData ==
  /\ phase = "store"
  /\ \E title \in StoreTitles :
       last' = [op |-> "getChatData", title |-> title,
                data |-> getChatData(localStorage, title)]
  /\ UNCHANGED <<currentHistory, currentChatTitle, currentSystemInstruction, saveTimeoutId,
                 localStorage, chatContainer, loadingCount, regenerateButton, quickReplies,
                 startWeavingDisabled, inflight, microtasks, phase, scheduled, events, failed>>

NextStore == SaveChatData \/ GetChatData

SpecStore == InitStore /\ [][NextStore]_vars

(* C8: a conversation with at least one turn and a non-empty instruction,  *)
(* saved under a title and then loaded under that title, comes back with   *)
(* the same turns in the same order and the same instruction.              *)
C8_SaveThenLoad ==
  [][(/\ last.op = "saveChatData"
      /\ last.history # <<>>
      /\ last.systemInstruction # ""
      /\ last'.op = "getChatData"
      /\ last'.title = last.title)
     => last'.data = ChatData(last.history, last.systemInstruction)]_vars

C8_Witness ==
  /\ last.op = "getChatData"
  /\ last.title = "B"
  /\ last.data = ChatData(<<Turn("user", "go left"), Turn("model", "you fall")>>, "Be brief.")

----------------------------------------------------------------------------
\* the item stored for title, as getChatData reads it
StoredFor(title) == getItem(localStorage, HISTORY_KEY_PREFIX \o title)

(* C19: for a stored value that is a JSON array, getChatData returns the   *)
(* items of that array as the turns, in their order, and the default       *)
(* system instruction.                                                     *)
C19_BareArrayIsTheHistory ==
  (/\ last.op = "getChatData"
   /\ StoredFor(last.title).json
   /\ StoredFor(last.title).v.k = "array")
  => last.data = [history |-> StoredFor(last.title).v.items,
                  systemInstruction |-> DEFAULT_SYSTEM_INSTRUCTION]

C19_Witness ==
  /\ last.op = "getChatData"
  /\ last.title = "A"
  /\ StoredFor("A") = JSONstringify(JArray(<<Turn("user", "run")>>))
  /\ last.data.history = <<Turn("user", "run")>>
  /\ last.data.systemInstruction = DEFAULT_SYSTEM_INSTRUCTION

(* C20: for a title with no stored item, and for a stored string that      *)
(* JSON.parse rejects, getChatData returns a value, the conversation with  *)
(* no turn and the default system instruction.                             *)
C20_AbsentOrUnparsableIsEmpty ==
  (/\ last.op = "getChatData"
   /\ \/ (HISTORY_KEY_PREFIX \o last.title) \notin DOMAIN localStorage
      \/ ~StoredFor(last.title).json)
  => (/\ DOMAIN last.data = {"history", "systemInstruction"}
      /\ last.data.history = <<>>
      /\ last.data.systemInstruction = DEFAULT_SYSTEM_INSTRUCTION)

C20_Witness ==
  /\ last.op = "getChatData"
  /\ last.title = "B"
  /\ StoredFor("B") = PlainString("{\"history\":")
  /\ last.data = EmptyChatData

(* Title generation on its own: new stories started on bounded catalogs,   *)
(* the title request answered with candidates that are in the catalog or   *)
(* not.                                                                    *)

\* the catalog has at most MaxCatalog titles
MaxCatalog == 3

TitlePool == {"A", "A 2", "A 3", "B"}

Catalogs ==
  {cat \in UNION {[1..n -> TitlePool] : n \in 0..MaxCatalog} :
     \A i, j \in 1..Len(cat) : cat[i] = cat[j] => i = j}

CandidateOutcomes ==
  {[ok |-> TRUE, text |-> txt] :
     txt \in {<<" ", "\"", "A", "\"">>, <<"B", " ">>, <<"C">>, EmptyTitleText}}
  \cup {[ok |-> FALSE]}

\* the stories of the catalog cat, each with its record, none opened last
Stored(cat) ==
  [key \in {SAVED_CHATS_KEY} \cup {HISTORY_KEY_PREFIX \o cat[i] : i \in 1..Len(cat)} |->
     IF key = SAVED_CHATS_KEY
       THEN JSONstringify(JArray(cat))
       ELSE JSONstringify(JObject(EmptyChatData))]

\* the session when initializeApp has run
InitTitle ==
  /\ \E cat \in Catalogs : Is(initializeApp(Loaded(Stored(cat))))
  /\ phase = "running"
  /\ events = 0
  /\ failed = FALSE
  /\ last = [op |-> "initializeApp"]

\* the title request is answered, with one of the candidates or not at all
TitleAnsweredCandidates ==
  /\ Settling
  /\ \E req \in TitleRequests(State), outcome \in CandidateOutcomes :
       /\ Becomes(generateTitleResumes(Answered(State, req), req, outcome))
       /\ last' = [op |-> "generateTitleResumes", text |-> req.prompt, genre |-> req.genre,
                   outcome |-> outcome]
       /\ failed' = (failed \/ ~TitleGenerated(outcome))
  /\ UNCHANGED <<events, phase>>

NextTitle ==
  \/ NewChatClick
  \/ InitialFormSubmit
  \/ TitleAnsweredCandidates
  \/ StartStoryResumes
  \/ StartStorySends

SpecTitle == InitTitle /\ [][NextTitle]_vars

\* the title generateTitle has just returned: the one of the continuation
\* queued last
Returned == microtasks[Len(microtasks)].title

\* the candidate with the suffix k
Suffixed(candidate, k) == candidate \o " " \o ToString(k)

(* C9: a candidate absent from the catalog is returned as it is; for a     *)
(* candidate in the catalog the title returned is the candidate with the   *)
(* smallest suffix k >= 2 that is absent from the catalog: "A 2" for the   *)
(* catalog ["A"], "A 3" for the catalog ["A", "A 2"].                      *)
C9_SmallestAbsentSuffix ==
  (last.op = "generateTitleResumes" /\ last.outcome.ok /\ TitleOf(last.outcome.text) # "")
  => LET candidate == TitleOf(last.outcome.text)
         catalog == getSavedChats(localStorage)
     IN /\ ~Includes(catalog, candidate) => Returned = candidate
        /\ Includes(catalog, candidate)
           => \E k \in 2..(Len(catalog) + 1) :
                /\ Returned = Suffixed(candidate, k)
                /\ ~Includes(catalog, Suffixed(candidate, k))
                /\ \A j \in 2..(k - 1) : Includes(catalog, Suffixed(candidate, j))
        /\ (catalog = <<"A">> /\ candidate = "A") => Returned = "A 2"
        /\ (catalog = <<"A", "A 2">> /\ candidate = "A") => Returned = "A 3"

C9_Witness ==
  /\ last.op = "generateTitleResumes"
  /\ last.outcome = [ok |-> TRUE, text |-> <<" ", "\"", "A", "\"">>]
  /\ getSavedChats(localStorage) = <<"A", "A 2">>
  /\ Returned = "A 3"

----------------------------------------------------------------------------
(* The bootstrap on its own: initializeApp on the localStorage that        *)
(* earlier sessions, of this version or of older ones, may have left: with *)
(* or without a pointer, a catalog and records, the pointer naming a title *)
(* of the catalog or not.                                                  *)

NoItems == [k \in {} |-> NullItem]

StoredPointers ==
  {NoItems} \cup {CURRENT_CHAT_KEY :> PlainString(title) : title \in {"A", "B", "C"}}

StoredCatalogs ==
  {NoItems} \cup {SAVED_CHATS_KEY :> JSONstringify(JArray(cat)) :
                    cat \in {<<>>, <<"A">>, <<"A", "B">>, <<"B", "A">>}}

StoredRecords ==
  { NoItems,
    (HISTORY_KEY_PREFIX \o "A") :>
       JSONstringify(JObject(ChatData(<<Turn("user", "go left")>>, "Be brief."))),
    ((HISTORY_KEY_PREFIX \o "A") :>
       JSONstringify(JObject(ChatData(<<Turn("user", "go left")>>, "Be brief."))))
      @@ ((HISTORY_KEY_PREFIX \o "B") :> JSONstringify(JArray(<<Turn("user", "run")>>))),
    (HISTORY_KEY_PREFIX \o "A") :> PlainString("{\"history\":") }

BootStorages ==
  {pointer @@ catalog @@ records :
     pointer \in StoredPointers, catalog \in StoredCatalogs, records \in StoredRecords}

InitBoot ==
  /\ Declared
  /\ localStorage \in BootStorages
  /\ phase = "boot"

NextBoot == InitializeApp

SpecBoot == InitBoot /\ [][NextBoot]_vars

\* the items of localStorage other than the last-opened pointer
WithoutPointer(ls) == removeItem(ls, CURRENT_CHAT_KEY)

\* lastChat && getSavedChats().includes(lastChat): the pointer is stored, is
\* not the empty string, and names a title of the catalog
Named(ls) ==
  LET lastChat == getItem(ls, CURRENT_CHAT_KEY) IN
  /\ ~Falsy(lastChat)
  /\ Includes(getSavedChats(ls), lastChat.v)

(* C14, as the claim states it: at every startup the story the pointer     *)
(* names is loaded if and only if the pointer is stored and names a title  *)
(* of the catalog; in every other case no story is open; the catalog is    *)
(* as it was.                                                              *)
C14_EveryStartupLoadsIffPointerInCatalog ==
  [][last'.op = "initializeApp"
     => /\ Named(localStorage)
           <=> (/\ ~NoTitle(currentChatTitle')
                /\ currentChatTitle' = getItem(localStorage, CURRENT_CHAT_KEY).v
                /\ currentHistory'
                     = getChatData(localStorage, currentChatTitle').history)
        /\ ~Named(localStorage) => NoTitle(currentChatTitle')
        /\ getSavedChats(localStorage') = getSavedChats(localStorage)]_vars

(* C14, amended: initializeApp, when it reaches its initial load (the API  *)
(* key is set), opens the story the pointer names if and only if the pointer is   *)
(* stored and names a title of the catalog, with the turns and the         *)
(* instruction stored for it; in every other case no story is open, the    *)
(* history is empty and the pointer is removed.  The catalog and the       *)
(* records are as they were in both cases (and without an API key, where   *)
(* no story is opened).                                                    *)
C14_BootstrapLoadsIffPointerInCatalog ==
  [][last'.op = "initializeApp"
     => LET lastChat == getItem(localStorage, CURRENT_CHAT_KEY)
            named == Named(localStorage)
        IN /\ (phase' = "running" /\ named)
              => (/\ currentChatTitle' = lastChat.v
                  /\ currentHistory' = getChatData(localStorage, lastChat.v).history
                  /\ currentSystemInstruction' =
                       getChatData(localStorage, lastChat.v).systemInstruction
                  /\ localStorage' = localStorage)
           /\ (phase' = "running" /\ ~named)
              => (/\ NoTitle(currentChatTitle')
                  /\ currentHistory' = <<>>
                  /\ CURRENT_CHAT_KEY \notin DOMAIN localStorage')
           /\ phase' = "nokey" => (NoTitle(currentChatTitle') /\ currentHistory' = <<>>)
           /\ WithoutPointer(localStorage') = WithoutPointer(localStorage)]_vars

\* the story "B", stored in the old format, was opened last and is loaded
C14_Witness ==
  /\ last.op = "initializeApp"
  /\ phase = "running"
  /\ getSavedChats(localStorage) = <<"B", "A">>
  /\ currentChatTitle = "B"
  /\ currentHistory = <<Turn("user", "run")>>
  /\ chatContainer = <<Message("run", "user", 0)>>

----------------------------------------------------------------------------
(* C24: the loop of generateTitle ends for every catalog and candidate: it *)
(* tests at most one candidate more than the catalog has titles, and the   *)
(* title returned is the last candidate tested.                            *)
C24_LoopTestsAtMostCatalogPlusOne ==
  (last.op = "generateTitleResumes" /\ last.outcome.ok /\ TitleOf(last.outcome.text) # "")
  => LET candidate == TitleOf(last.outcome.text)
         catalog == getSavedChats(localStorage)
         tested == IncludesCalls(catalog, candidate, candidate, 2)
     IN /\ tested >= 1
        /\ tested <= Len(catalog) + 1
        /\ Returned = IF tested = 1 THEN candidate ELSE Suffixed(candidate, tested)

\* the catalog holds the candidate and its first two suffixed titles: four
\* candidates are tested
C24_Witness ==
  /\ last.op = "generateTitleResumes"
  /\ last.outcome.ok
  /\ TitleOf(last.outcome.text) = "A"
  /\ Len(getSavedChats(localStorage)) = 3
  /\ IncludesCalls(getSavedChats(localStorage), "A", "A", 2) = 4
  /\ Returned = "A 4"

(* The catalog on its own: saveNewChatTitle applied to sequences of        *)
(* titles, repeated or not, from an empty localStorage on.                 *)

\* at most MaxRegistrations titles are registered
MaxRegistrations == 4

RegisteredTitles == {"A", "A 2", "B"}

\* history: the titles registered so far, in order, repeated ones included
Registrations == IF last.op = "saveNewChatTitle" THEN last.log ELSE <<>>

InitCatalog ==
  /\ Declared
  /\ localStorage = NoItems
  /\ phase = "catalog"

RegisterTitle ==
  /\ phase = "catalog"
  /\ Len(Registrations) < MaxRegistrations
  /\ \E title \in RegisteredTitles :
       /\ localStorage' = saveNewChatTitle(localStorage, title)
       /\ last' = [op |-> "saveNewChatTitle", title |-> title,
                   log |-> Append(Registrations, title)]
  /\ UNCHANGED <<currentHistory, currentChatTitle, currentSystemInstruction, saveTimeoutId,
                 chatContainer, loadingCount, regenerateButton, quickReplies,
                 startWeavingDisabled, inflight, microtasks, phase, scheduled, events, failed>>

NextCatalog == RegisterTitle

SpecCatalog == InitCatalog /\ [][NextCatalog]_vars

\* the titles of log, each at the place of its first occurrence
RECURSIVE FirstOccurrences(_)
FirstOccurrences(log) ==
  IF log = <<>> THEN <<>>
  ELSE LET earlier == FirstOccurrences(SubSeq(log, 1, Len(log) - 1))
           title == log[Len(log)]
       IN IF \E i \in 1..Len(earlier) : earlier[i] = title
            THEN earlier ELSE Append(earlier, title)

(* C18: registering a title that is in the catalog leaves the catalog (and *)
(* localStorage) as it is, registering one that is not appends it at the   *)
(* end; so after any sequence of registrations the catalog holds each      *)
(* title registered exactly once, in the order of the first registrations. *)
C18_RegisterIsIdempotentAppend ==
  /\ [](LET catalog == getSavedChats(localStorage) IN
        /\ catalog = FirstOccurrences(Registrations)
        /\ \A i, j \in 1..Len(catalog) : catalog[i] = catalog[j] => i = j)
  /\ [][last'.op = "saveNewChatTitle"
        => LET catalog == getSavedChats(localStorage) IN
           IF \E i \in 1..Len(catalog) : catalog[i] = last'.title
             THEN localStorage' = localStorage
             ELSE getSavedChats(localStorage') = Append(catalog, last'.title)]_vars

\* "A" is registered again after "B": the catalog is as it was
C18_Witness ==
  /\ last.op = "saveNewChatTitle"
  /\ last.log = <<"A", "B", "A">>
  /\ getSavedChats(localStorage) = <<"A", "B">>

----------------------------------------------------------------------------
(* The classification of errors on its own: the message handleApiError     *)
(* renders for the errors a backend call may be rejected with.             *)

\* the message of an error has at most MaxSegments segments
MaxSegments == 2

ErrorSegments ==
  {"API key not valid", "api key not valid", "Quota", "quota", "Network Error",
   "Failed to fetch", "400", "500", "503", " Bad Gateway "}

\* the values a call is rejected with: Error objects, and a value that is
\* not an Error
Errors ==
  {Error(message) : message \in UNION {[1..n -> ErrorSegments] : n \in 1..MaxSegments}}
  \cup {[isError |-> FALSE]}

InitError ==
  /\ Declared
  /\ localStorage = NoItems
  /\ phase = "error"

\* the error messages shown in one session
MaxShown == 1

\* handleApiError is called with an error and an element that is not in
\* the chat container
HandleApiError ==
  /\ phase = "error"
  /\ Len(chatContainer) < MaxShown
  /\ \E error \in Errors :
       /\ Becomes(handleApiError(State, error, loadingCount + 1))
       /\ last' = [op |-> "handleApiError", error |-> error,
                   userFriendlyMessage |-> UserFriendlyMessage(error)]
  /\ UNCHANGED <<phase, events, failed>>

NextError == HandleApiError

SpecError == InitError /\ [][NextError]_vars

\* the table of the categories: the substrings of a row, the message shown
CategoryTable ==
  << [substrings |-> {"api key not valid"},
      shown |-> "Your API key is invalid. Please check your configuration."],
     [substrings |-> {"quota"},
      shown |-> "You have exceeded your API quota. Please check your usage and billing."],
     [substrings |-> {"network error", "failed to fetch"},
      shown |-> "A network error occurred. Please check your internet connection and try again."],
     [substrings |-> {"400"},
      shown |-> "The request was malformed. This could be due to a safety policy violation. Please try rephrasing your prompt."],
     [substrings |-> {"500", "503"},
      shown |-> "The service is temporarily unavailable. Please try again in a few moments."] >>

\* row matches the message, whatever the case of its letters
RowMatches(row, message) ==
  \E i \in 1..Len(message) : ToLowerCase(message[i]) \in CategoryTable[row].substrings

(* C21: the message rendered for an Error is the message of the first row  *)
(* of the table one of whose substrings occurs in the error message,       *)
(* letter case ignored; when no row matches it is "Could not get a         *)
(* response. " followed by the original error message.  Each error gets    *)
(* one message, shown as the last message of the chat container.          *)
C21_FirstMatchingRowDecides ==
  (last.op = "handleApiError" /\ last.error.isError)
  => LET message == last.error.message
         rows == {row \in 1..Len(CategoryTable) : RowMatches(row, message)}
     IN /\ \A row \in rows :
             (\A earlier \in rows : row <= earlier)
               => last.userFriendlyMessage = CategoryTable[row].shown
        /\ rows = {}
             => last.userFriendlyMessage = "Could not get a response. " \o Join(message)
        /\ rows # {}
             => \E row \in rows : last.userFriendlyMessage = CategoryTable[row].shown
        /\ chatContainer[Len(chatContainer)]
             = Message("<strong>Error:</strong> " \o last.userFriendlyMessage, "model", 0)

\* "Quota" and "400" both occur, in upper case and after the later row's
\* substring: the earlier row decides
C21_Witness ==
  /\ last.op = "handleApiError"
  /\ last.error = Error(<<"400", "Quota">>)
  /\ chatContainer =
       << Message("<strong>Error:</strong> You have exceeded your API quota. Please check your usage and billing.",
                  "model", 0) >>

----------------------------------------------------------------------------
(* Submitting on its own: the callers of sendMessage (the chat form, the   *)
(* quick replies, the regenerate button) from a session that has just      *)
(* started, with a backend whose suggestions may be empty strings.         *)

ReplyOutcomes ==
  {[ok |-> TRUE, text |-> txt] : txt \in {TextStory, TextBlankReply}}
  \cup {[ok |-> FALSE, error |-> Error(<<"503", " Service Unavailable">>)]}

\* the session when initializeApp has run
InitSubmit ==
  /\ \E ls \in InitialStorages : Is(initializeApp(Loaded(ls)))
  /\ phase = "running"
  /\ events = 0
  /\ failed = FALSE
  /\ last = [op |-> "initializeApp"]

\* a story request is answered, the suggestions possibly empty strings
StoryAnsweredReplies ==
  /\ \E req \in StoryRequests(State), outcome \in ReplyOutcomes :
       /\ Becomes(sendMessageResumes(Answered(State, req), req.loadingIndicator, outcome))
       /\ last' = [op |-> "sendMessageResumes", title |-> req.title, outcome |-> outcome]
       /\ failed' = (failed \/ ~StoryGenerated(outcome))
  /\ UNCHANGED <<events, phase>>

NextSubmit ==
  \/ NewChatClick
  \/ ChatFormSubmit
  \/ QuickReplyClick
  \/ RegenerateClick
  \/ StoryAnsweredReplies

SpecSubmit == InitSubmit /\ [][NextSubmit]_vars

(* C26: a chat form submit or a quick reply click while no story is open,  *)
(* or with the empty text, appends no turn, issues no backend call and     *)
(* schedules no save; a regeneration while no story is open appends no     *)
(* turn, issues no call and schedules no save either.                      *)
C26_SubmitNeedsStoryAndText ==
  [][/\ (/\ last'.op \in {"chatFormSubmit", "quickReplyClick"}
         /\ (NoTitle(currentChatTitle) \/ last'.text = ""))
        => UNCHANGED <<currentHistory, inflight, saveTimeoutId, scheduled>>
     /\ (last'.op = "regenerateLastResponse" /\ NoTitle(currentChatTitle))
        => (/\ Len(currentHistory') <= Len(currentHistory)
            /\ currentHistory' = SubSeq(currentHistory, 1, Len(currentHistory'))
            /\ UNCHANGED <<inflight, saveTimeoutId, scheduled>>)]_vars

----------------------------------------------------------------------------
(* The session that keeps running, from the moment initializeApp has run:  *)
(* the reader submits, opens stories and regenerates; a timeout that is    *)
(* pending fires and a backend call that is awaited is answered.  The      *)
(* reader may stop at any time.                                            *)

NextLive ==
  \/ ChatFormSubmit
  \/ SavedChatClick
  \/ RegenerateClick
  \/ StoryAnswered
  \/ SaveTimeout

SpecLive ==
  /\ InitSubmit
  /\ [][NextLive]_vars
  /\ WF_vars(SaveTimeout)
  /\ WF_vars(StoryAnswered)

\* the turns of story A after the reader has answered "go left"
TurnsOfA ==
  << Turn("user", "go left"), Turn("model", "you fall"), Turn("user", "go left") >>

\* a save is pending that was requested for title with the turns history
SavePending(title, history) ==
  /\ saveTimeoutId
  /\ scheduled.title = title
  /\ scheduled.history = history

(* C28: the turns appended to story A are written to the record of A also  *)
(* when the reader opens story B before the pending save has run: a save   *)
(* requested for A with the turns TurnsOfA that is still pending while B   *)
(* is open leads to the record of A holding TurnsOfA.                      *)
C28_AppendedTurnsArePersisted ==
  (SavePending("A", TurnsOfA) /\ currentChatTitle = "B")
    ~> (getChatData(localStorage, "A").history = TurnsOfA)

====
